---- MODULE Spec2Model ----
(***************************************************************************)
(* A model of the tensors++ dense tensor engine (tensors++/core/shape.hpp  *)
(* and tensors++/core/tensor.hpp).  The tensor class is the last revision  *)
(* held in tensor.hpp (lines 861-1396).  The state of one tensor object is *)
(* the state of the model and every member function is one action; a call  *)
(* leaves its arguments and its outcome in op, arg*, res and ret until the *)
(* caller returns to idle.  size_t is modelled as arithmetic modulo        *)
(* 2^SizeBits and uint as arithmetic modulo 2^UintBits; the shapes drawn   *)
(* for the tensor specifications keep every product below both.  An        *)
(* operation the C++ standard leaves undefined ends the behaviour in a     *)
(* state with defined = FALSE, one for each outcome considered.            *)
(***************************************************************************)
EXTENDS Integers, Sequences, FiniteSets, TLC

\* ------------------------------------------------------------- bounds
MaxRank == 2
MaxDim == 3
MaxSeed == 0
MaxIndexLen == 3
MaxValue == 2
MaxSqueezeRank == 4
MaxSqueezeDim == 5
MaxSqueezeCount == 15
MaxShapeRank == 4
MaxShapeDim == 7
MaxBuffer == 1000
SizeBits == 16
UintBits == 8

SizeMod == 2 ^ SizeBits
UintMod == 2 ^ UintBits

VARIABLES
  shpe,                  \* shape::Shape shpe (its vector d)
  element_count,         \* size_t element_count
  cum_shpe,              \* std::vector<uint> cum_shpe
  tensor_configuration,  \* the Config the reference member was bound to
  data,                  \* std::vector<dtype> data
  is_frozen,             \* bool is_frozen
  defined,               \* FALSE once an operation had undefined behaviour
  op,                    \* the member function called last
  argShape,              \* its shape, index or axis argument
  argData,               \* the buffer of its tensor argument
  argFlag,               \* its boolean argument
  res,                   \* "ok", or the exception it threw, or "ub"
  ret                    \* the value it returned

tensor == <<shpe, element_count, cum_shpe, tensor_configuration, data, is_frozen>>
vars == <<shpe, element_count, cum_shpe, tensor_configuration, data, is_frozen,
          defined, op, argShape, argData, argFlag, res, ret>>

\* ------------------------------------------------------------- input sets
RECURSIVE SeqsUpTo(_, _)
SeqsUpTo(S, n) ==
  IF n = 0 THEN {<<>>}
  ELSE LET shorter == SeqsUpTo(S, n - 1)
       IN shorter \cup {Append(s, x) : s \in {q \in shorter : Len(q) = n - 1}, x \in S}

Min(a, b) == IF a < b THEN a ELSE b

Dims == 1..MaxDim
ValidShapes == SeqsUpTo(Dims, MaxRank)
ReshapeInputs == SeqsUpTo(-1..MaxDim, MaxRank)
Initializers == {"zeros", "onces", "random", "uniform_gaussian", "int_sequence"}
\* No operation modelled here reads is_broad_castable; it keeps its default.
Configs == [is_broad_castable : {TRUE}, is_freezeable : BOOLEAN]
Seeds == 0..MaxSeed
Indexers == SeqsUpTo(-1..MaxDim, MaxIndexLen)

\* ------------------------------------------------------------- shape.hpp
\* Shape(std::vector<int>): an entry <= 0 is stored as 0.
ShapeFromInts(s) == [i \in 1..Len(s) |-> IF s[i] <= 0 THEN 0 ELSE s[i] % UintMod]

dimension(d) == Len(d)

\* cumulative_shape with temp += d[t] in place of temp *= d[t].
RECURSIVE cumulative_shape_sum(_)
cumulative_shape_sum(d) ==
  IF Len(d) = 0 THEN <<>>
  ELSE LET front == cumulative_shape_sum(SubSeq(d, 1, Len(d) - 1))
           temp == IF Len(front) = 0 THEN 1 ELSE front[Len(front)]
       IN Append(front, (temp + d[Len(d)]) % SizeMod)

\* cumulative_shape pushing temp before the multiplication by d[t].
RECURSIVE cumulative_shape_late(_)
cumulative_shape_late(d) ==
  IF Len(d) = 0 THEN <<>>
  ELSE LET front == cumulative_shape_late(SubSeq(d, 1, Len(d) - 1))
           temp == IF Len(front) = 0 THEN 1
                   ELSE (front[Len(front)] * d[Len(d) - 1]) % SizeMod
       IN Append(front, temp)

RECURSIVE cumulative_shape(_)
cumulative_shape(d) ==
  IF Len(d) = 0 THEN <<>>
  ELSE LET front == cumulative_shape(SubSeq(d, 1, Len(d) - 1))
           temp == IF Len(front) = 0 THEN 1 ELSE front[Len(front)]
       IN Append(front, (temp * d[Len(d)]) % SizeMod)

\* element_size with size_t s = 0 in place of s = 1.
RECURSIVE element_size_from_zero(_)
element_size_from_zero(d) ==
  IF Len(d) = 0 THEN 0
  ELSE (element_size_from_zero(SubSeq(d, 1, Len(d) - 1)) * d[Len(d)]) % SizeMod

RECURSIVE element_size(_)
element_size(d) ==
  IF Len(d) = 0 THEN 1
  ELSE (element_size(SubSeq(d, 1, Len(d) - 1)) * d[Len(d)]) % SizeMod

\* is_initial_valid_shape returning from the first turn of its loop.
is_initial_valid_shape_first(d) == Len(d) = 0 \/ ~(d[1] <= 0)

is_initial_valid_shape(d) == \A i \in 1..Len(d) : ~(d[i] <= 0)

\* ------------------------------------------------------------- tensor.hpp
\* The sample a generator seeded with seed yields at position i (0-based).
Sample(seed, i) == (seed + 2 * i + 1) % 3

init_initializer(init_type, n, seed) ==
  [k \in 1..n |->
     CASE init_type = "zeros" -> 0
       [] init_type = "onces" -> 1
       [] init_type = "int_sequence" -> k - 1
       [] OTHER -> Sample(seed, k - 1)]

\* update_shape: the three fields it assigns, as a record.
update_shape(new_Shape) ==
  [shpe |-> new_Shape,
   cum_shpe |-> [i \in 1..Len(new_Shape) |-> cumulative_shape(new_Shape)[i] % UintMod],
   element_count |-> element_size(new_Shape)]

SetShape(u) ==
  /\ shpe' = u.shpe
  /\ cum_shpe' = u.cum_shpe
  /\ element_count' = u.element_count

Init ==
  \E shape \in ValidShapes, init_method \in Initializers,
     tensor_config \in Configs, seed \in Seeds :
    LET u == update_shape(shape) IN
    /\ shpe = u.shpe
    /\ cum_shpe = u.cum_shpe
    /\ element_count = u.element_count
    /\ data = init_initializer(init_method, u.element_count, seed)
    /\ tensor_configuration = tensor_config
    /\ is_frozen = FALSE
    /\ defined = TRUE
    /\ op = "tensor"
    /\ argShape = shape
    /\ argData = <<>>
    /\ argFlag = FALSE
    /\ res = "ok"
    /\ ret = 0

\* The caller has seen the outcome of the last call; the next call can start.
Return ==
  /\ defined
  /\ op # "idle"
  /\ op' = "idle"
  /\ argShape' = <<>>
  /\ argData' = <<>>
  /\ argFlag' = FALSE
  /\ res' = "ok"
  /\ ret' = 0
  /\ UNCHANGED <<tensor, defined>>

Idle == defined /\ op = "idle"

\* The loop of reshape over new_shape from position i (1-based) on: ss and
\* auto_shape when it ends, or thrown when it throws bad_reshape.
RECURSIVE ReshapeScan(_, _, _, _)
ReshapeScan(new_shape, i, ss, auto_shape) ==
  IF i > Len(new_shape)
  THEN [thrown |-> FALSE, ss |-> ss, auto_shape |-> auto_shape]
  ELSE LET e == new_shape[i]
           running_index == i - 1
       IN IF e = 0
          THEN [thrown |-> TRUE, ss |-> ss, auto_shape |-> auto_shape]
          ELSE IF e < 0 /\ auto_shape # 0
          THEN [thrown |-> TRUE, ss |-> ss, auto_shape |-> auto_shape]
          ELSE IF e < 0
          THEN ReshapeScan(new_shape, i + 1, ss, running_index)
          ELSE ReshapeScan(new_shape, i + 1, (ss * e) % SizeMod, auto_shape)

\* reshape without the comparison of ss with element_count.
ReshapeTargetUnchecked(new_shape, count) ==
  IF ReshapeScan(new_shape, 1, 1, -1).thrown
  THEN [res |-> "bad_reshape", ns |-> <<>>]
  ELSE [res |-> "ok", ns |-> ShapeFromInts(new_shape)]

\* What reshape does after the loop: the shape it installs, or "bad_reshape".
ReshapeTarget(new_shape, count) ==
  LET scan == ReshapeScan(new_shape, 1, 1, -1)
      ss == scan.ss
      auto_shape == scan.auto_shape
  IN IF scan.thrown THEN [res |-> "bad_reshape", ns |-> <<>>]
     ELSE IF ss = count THEN [res |-> "ok", ns |-> ShapeFromInts(new_shape)]
     ELSE IF auto_shape # -1
     THEN IF count % ss = 0
          THEN [res |-> "ok",
                ns |-> ShapeFromInts([new_shape EXCEPT ![auto_shape + 1] = (count \div ss) % UintMod])]
          ELSE [res |-> "bad_reshape", ns |-> <<>>]
     ELSE [res |-> "bad_reshape", ns |-> <<>>]

\* reshape(new_shape).  It is declared bool and has no return statement: when
\* it does not throw, control flows off its end, which yields an indeterminate
\* value or does not return at all.
Reshape ==
  /\ Idle
  /\ \E new_shape \in ReshapeInputs :
       LET t == ReshapeTarget(new_shape, element_count) IN
       /\ op' = "reshape"
       /\ argShape' = new_shape
       /\ argData' = <<>>
       /\ argFlag' = FALSE
       /\ UNCHANGED <<tensor_configuration, data, is_frozen>>
       /\ IF t.res = "ok"
          THEN /\ SetShape(update_shape(t.ns))
               /\ \/ /\ res' = "ok"
                     /\ ret' \in {0, 1}
                     /\ defined' = TRUE
                  \/ /\ res' = "ub"
                     /\ ret' = 0
                     /\ defined' = FALSE
          ELSE /\ res' = t.res
               /\ ret' = 0
               /\ defined' = TRUE
               /\ UNCHANGED <<shpe, cum_shpe, element_count>>

Zeros(n) == [k \in 1..n |-> 0]

\* The buffer after the two loops of resize_shape; ub when pop_back is called
\* on an empty vector.
ResizeBuffer(buf, old, new_s) ==
  LET pushes == IF new_s > old THEN (new_s - old) % SizeMod ELSE 0
      pops == IF new_s < old THEN (new_s - old) % SizeMod ELSE 0
  IN IF pops > Len(buf)
     THEN [ub |-> TRUE, data |-> <<>>]
     ELSE [ub |-> FALSE,
           data |-> SubSeq(buf \o Zeros(pushes), 1, Len(buf) + pushes - pops)]

\* What the tensor may hold after pop_back ran on the empty vector: the
\* process stops where it is (an assertion of the library, a fault), or the
\* loop is folded into one move of the vector's end by new_s - old elements
\* (modulo the word size), which leaves 2 * old - new_s elements, the added
\* ones being whatever lies behind the buffer.
GarbageValues == {0, 1}
UBBuffers(buf, old, new_s) ==
  {buf} \cup
  {[k \in 1..(2 * old - new_s) |-> IF k <= Len(buf) THEN buf[k] ELSE g] : g \in GarbageValues}

\* resize_shape(new_shape)
ResizeShape ==
  /\ Idle
  /\ \E new_shape \in ValidShapes :
       LET r == ResizeBuffer(data, element_count, element_size(new_shape)) IN
       /\ op' = "resize_shape"
       /\ argShape' = new_shape
       /\ argData' = <<>>
       /\ argFlag' = FALSE
       /\ ret' = 0
       /\ UNCHANGED <<tensor_configuration, is_frozen>>
       /\ IF r.ub
          THEN /\ \/ /\ data' \in UBBuffers(data, element_count, element_size(new_shape))
                     /\ SetShape(update_shape(new_shape))
                  \/ UNCHANGED <<shpe, cum_shpe, element_count, data>>
               /\ res' = "ub"
               /\ defined' = FALSE
          ELSE /\ data' = r.data
               /\ SetShape(update_shape(new_shape))
               /\ res' = "ok"
               /\ defined' = TRUE

\* freeze().  tensor_configuration is a reference bound to the constructor's
\* by-value parameter, which is gone when the constructor has returned: the
\* flag read through it is indeterminate.
Freeze ==
  /\ Idle
  /\ op' = "freeze"
  /\ argShape' = <<>>
  /\ argData' = <<>>
  /\ argFlag' = FALSE
  /\ ret' = 0
  /\ defined' = TRUE
  /\ UNCHANGED <<shpe, cum_shpe, element_count, tensor_configuration, data>>
  /\ \E is_freezeable \in BOOLEAN :
       IF is_freezeable
       THEN /\ is_frozen' = TRUE
            /\ res' = "ok"
       ELSE /\ res' = "operation_undefined"
            /\ UNCHANGED is_frozen

\* unfreeze()
Unfreeze ==
  /\ Idle
  /\ op' = "unfreeze"
  /\ argShape' = <<>>
  /\ argData' = <<>>
  /\ argFlag' = FALSE
  /\ ret' = 0
  /\ res' = "ok"
  /\ defined' = TRUE
  /\ is_frozen' = FALSE
  /\ UNCHANGED <<shpe, cum_shpe, element_count, tensor_configuration, data>>

\* The loop of squeeze dropping the 1s at the front only.
RECURSIVE newShapeLeading(_)
newShapeLeading(d) ==
  IF Len(d) > 0 /\ d[1] = 1 THEN newShapeLeading(Tail(d)) ELSE d

\* The vector newShape that the loop of squeeze builds from the shape d.
newShape(d) == SelectSeq(d, LAMBDA e : e # 1)

\* squeeze()
Squeeze ==
  /\ Idle
  /\ op' = "squeeze"
  /\ argShape' = <<>>
  /\ argData' = <<>>
  /\ argFlag' = FALSE
  /\ ret' = 0
  /\ res' = "ok"
  /\ defined' = TRUE
  /\ SetShape(update_shape(newShape(shpe)))
  /\ UNCHANGED <<tensor_configuration, data, is_frozen>>

AxisInputs == -1..MaxRank

\* swap_axis(axis1, axis2).  The range test builds an operation_undefined and
\* does not throw it, so the exchange runs for every pair of axes; outside the
\* shape vector it reads and writes whatever lies there.
SwapAxis ==
  /\ Idle
  /\ \E axis1 \in AxisInputs, axis2 \in AxisInputs :
       LET inside(a) == a >= 0 /\ a < dimension(shpe)
           swapped == [shpe EXCEPT ![axis1 + 1] = shpe[axis2 + 1],
                                   ![axis2 + 1] = shpe[axis1 + 1]]
       IN
       /\ op' = "swap_axis"
       /\ argShape' = <<axis1, axis2>>
       /\ argData' = <<>>
       /\ argFlag' = FALSE
       /\ ret' = 0
       /\ UNCHANGED <<tensor_configuration, data, is_frozen>>
       /\ IF inside(axis1) /\ inside(axis2)
          THEN /\ SetShape(update_shape(swapped))
               /\ res' = "ok"
               /\ defined' = TRUE
          ELSE /\ \E x \in 0..MaxDim :
                    SetShape(update_shape(
                      [i \in 1..Len(shpe) |->
                         IF (i = axis1 + 1 /\ ~inside(axis2)) \/ (i = axis2 + 1 /\ ~inside(axis1))
                         THEN x ELSE shpe[i]]))
               /\ res' = "ub"
               /\ defined' = FALSE

SourceInitializers == {"onces", "int_sequence"}

\* source.copy_to(that, explicitly_resize), that being the modelled tensor and
\* source a tensor of shape src built by initializer init.
CopyTo ==
  /\ Idle
  /\ \E src \in ValidShapes, init \in SourceInitializers, explicitly_resize \in BOOLEAN :
       LET count == element_size(src)
           source == init_initializer(init, count, 0)
           r == ResizeBuffer(data, element_count, count)
       IN
       /\ op' = "copy_to"
       /\ argShape' = src
       /\ argData' = source
       /\ argFlag' = explicitly_resize
       /\ ret' = 0
       /\ UNCHANGED <<tensor_configuration, is_frozen>>
       /\ IF ~explicitly_resize /\ element_count # count
          THEN /\ res' = "operation_undefined"
               /\ defined' = TRUE
               /\ UNCHANGED <<shpe, cum_shpe, element_count, data>>
          ELSE IF r.ub \/ Len(r.data) < count
          THEN /\ \/ /\ data' \in UBBuffers(data, element_count, count)
                     /\ SetShape(update_shape(src))
                  \/ UNCHANGED <<shpe, cum_shpe, element_count, data>>
               /\ res' = "ub"
               /\ defined' = FALSE
          ELSE /\ SetShape(update_shape(src))
               /\ data' = [t \in 1..Len(r.data) |-> IF t <= count THEN source[t] ELSE r.data[t]]
               /\ res' = "ok"
               /\ defined' = TRUE

\* The loop of to_flat_index from position t (1-based) on, ssf being the sum
\* so far.  shape[t] and cum[t] are read for every t below shape's
\* element_size, also behind the end of the two vectors ("ub").  The Indexer
\* holds ints, and an int compared with a uint is converted to uint.
RECURSIVE FlatScan(_, _, _, _, _, _)
FlatScan(s, t, ssf, shape, count, cum) ==
  IF t > element_size(shape) THEN [res |-> "ok", ret |-> ssf]
  ELSE IF t > Len(shape) \/ t > Len(cum) THEN [res |-> "ub", ret |-> 0]
  ELSE IF (s[t] % UintMod) > shape[t] THEN [res |-> "bad_indexer", ret |-> 0]
  ELSE IF cum[t] = 0 THEN [res |-> "ub", ret |-> 0]
  ELSE FlatScan(s, t + 1,
                (ssf + (s[t] % SizeMod) * (count \div cum[t])) % SizeMod,
                shape, count, cum)

to_flat_index(s, shape, count, cum) ==
  IF Len(s) # element_size(shape)
  THEN [res |-> "bad_indexer", ret |-> 0]
  ELSE FlatScan(s, 1, 0, shape, count, cum)

\* to_flat_index(s)
ToFlatIndex ==
  /\ Idle
  /\ \E s \in Indexers :
       LET f == to_flat_index(s, shpe, element_count, cum_shpe) IN
       /\ op' = "to_flat_index"
       /\ argShape' = s
       /\ argData' = <<>>
       /\ argFlag' = FALSE
       /\ UNCHANGED tensor
       /\ res' = f.res
       /\ IF f.res = "ub"
          THEN /\ ret' \in GarbageValues
               /\ defined' = FALSE
          ELSE /\ ret' = f.ret
               /\ defined' = TRUE

\* operator[](Indexer &p): data[to_flat_index(p)], read without a range check.
\* argFlag tells whether an element of the buffer was read.
IndexerGet ==
  /\ Idle
  /\ \E p \in Indexers :
       LET f == to_flat_index(p, shpe, element_count, cum_shpe) IN
       /\ op' = "operator[]"
       /\ argShape' = p
       /\ argData' = <<>>
       /\ UNCHANGED tensor
       /\ IF f.res = "bad_indexer"
          THEN /\ res' = "bad_indexer"
               /\ ret' = 0
               /\ argFlag' = FALSE
               /\ defined' = TRUE
          ELSE IF f.res = "ub"
          THEN /\ res' = "ub"
               /\ ret' \in GarbageValues
               /\ argFlag' = FALSE
               /\ defined' = FALSE
          ELSE IF f.ret + 1 > Len(data)
          THEN /\ res' = "ub"
               /\ ret' \in GarbageValues
               /\ argFlag' = TRUE
               /\ defined' = FALSE
          ELSE /\ res' = "ok"
               /\ ret' = data[f.ret + 1]
               /\ argFlag' = TRUE
               /\ defined' = TRUE

\* ------------------------------------------------------------- arithmetic
\* that.shape() != shpe, through Shape::operator==, which compares the vectors.
\* shape_neq_rank compares the number of axes only.
shape_neq_rank(a, b) == Len(a) # Len(b)

shape_neq(a, b) == a # b

\* The quotient of two ints in C++: truncated towards zero (b # 0).
Abs(a) == IF a < 0 THEN 0 - a ELSE a
CDiv(a, b) ==
  IF (a >= 0) = (b > 0) THEN Abs(a) \div Abs(b) ELSE 0 - (Abs(a) \div Abs(b))

\* The expression of one turn of an elementwise loop.
Combine(kind, x, y) ==
  CASE kind = "+" -> x + y
    [] kind = "-" -> x - y
    [] kind = "*" -> x * y
    [] kind = "/" -> IF y = 0 THEN 0 ELSE CDiv(x, y)

\* The loop for (i = 0; i < element_count - 1; i++): the last element is left.
ElementwiseShort(kind, a, b, n) ==
  [i \in 1..Len(a) |-> IF i <= n - 1 THEN Combine(kind, a[i], b[i]) ELSE a[i]]

\* The loop for (i = 0; i < element_count; i++) of the elementwise operators,
\* a being the buffer it leaves in place of a; both buffers hold n elements.
Elementwise(kind, a, b, n) ==
  [i \in 1..Len(a) |-> IF i <= n THEN Combine(kind, a[i], b[i]) ELSE a[i]]

\* The same loop stopped by the first division by zero.
ElementwiseUntilZero(kind, a, b, n) ==
  LET zeros == {i \in 1..n : b[i] = 0}
      first == CHOOSE i \in zeros : \A j \in zeros : i <= j
  IN [i \in 1..Len(a) |-> IF i < first THEN Combine(kind, a[i], b[i]) ELSE a[i]]

\* The names the calls are recorded under.
ScalarName(kind) ==
  CASE kind = "+" -> "+k" [] kind = "-" -> "-k" [] kind = "*" -> "*k" [] kind = "/" -> "/k"
CompoundName(kind) ==
  CASE kind = "+" -> "+=" [] kind = "-" -> "-=" [] kind = "*" -> "*=" [] kind = "/" -> "/="

DividesByZero(kind, b) == kind = "/" /\ \E i \in 1..Len(b) : b[i] = 0

Kinds == {"+", "-", "*", "/"}
ArithShapes == SeqsUpTo(1..(MaxDim - 1), MaxRank)
BroadcastConfigs == [is_broad_castable : BOOLEAN, is_freezeable : {TRUE}]
Scalars == 0..MaxValue

InitArith ==
  \E shape \in ArithShapes, init_method \in Initializers,
     tensor_config \in BroadcastConfigs, seed \in Seeds :
    LET u == update_shape(shape) IN
    /\ shpe = u.shpe
    /\ cum_shpe = u.cum_shpe
    /\ element_count = u.element_count
    /\ data = init_initializer(init_method, u.element_count, seed)
    /\ tensor_configuration = tensor_config
    /\ is_frozen = FALSE
    /\ defined = TRUE
    /\ op = "tensor"
    /\ argShape = shape
    /\ argData = <<>>
    /\ argFlag = FALSE
    /\ res = "ok"
    /\ ret = 0

\* operator+, operator-, operator*, operator/ (const tensor &that), that being
\* a tensor of shape thatShape built by initializer thatInit whose config has
\* is_broad_castable = argFlag.  In the else branch res is built and filled,
\* and control flows off the end of the function without a return statement:
\* the caller gets res, or an indeterminate object, or no return at all.
BinaryOp ==
  /\ Idle
  /\ \E kind \in Kinds, thatShape \in ArithShapes, thatInit \in SourceInitializers,
        thatBroadcast \in BOOLEAN :
       LET thatData == init_initializer(thatInit, element_size(thatShape), 0)
           n == Min(element_count, Len(thatData))
           filled == [shpe |-> thatShape,
                      data |-> Elementwise(kind, SubSeq(data, 1, n), thatData, n)]
       IN
       /\ op' = kind
       /\ argShape' = thatShape
       /\ argData' = thatData
       /\ argFlag' = thatBroadcast
       /\ UNCHANGED tensor
       /\ IF shape_neq(thatShape, shpe)
          THEN /\ res' = "operation_undefined"
               /\ ret' = 0
               /\ defined' = TRUE
          ELSE /\ res' = "ub"
               /\ defined' = FALSE
               /\ \/ ret' = "indeterminate"
                  \/ /\ ~DividesByZero(kind, thatData)
                     /\ n = element_count
                     /\ ret' = filled

\* operator+, operator-, operator*, operator/ (const dtype &k)
ScalarOp ==
  /\ Idle
  /\ \E kind \in Kinds, k \in Scalars :
       LET ks == [i \in 1..Len(data) |-> k] IN
       /\ op' = ScalarName(kind)
       /\ argShape' = <<>>
       /\ argData' = <<k>>
       /\ argFlag' = FALSE
       /\ UNCHANGED tensor
       /\ IF DividesByZero(kind, ks)
          THEN /\ res' = "ub"
               /\ ret' = "indeterminate"
               /\ defined' = FALSE
          ELSE /\ res' = "ok"
               /\ ret' = [shpe |-> shpe, data |-> Elementwise(kind, data, ks, element_count)]
               /\ defined' = TRUE

\* The tensors the in-place operators start from.
InitCompound ==
  \E shape \in ArithShapes, init_method \in Initializers, seed \in Seeds :
    LET u == update_shape(shape) IN
    /\ shpe = u.shpe
    /\ cum_shpe = u.cum_shpe
    /\ element_count = u.element_count
    /\ data = init_initializer(init_method, u.element_count, seed)
    /\ tensor_configuration = [is_broad_castable |-> TRUE, is_freezeable |-> TRUE]
    /\ is_frozen = FALSE
    /\ defined = TRUE
    /\ op = "tensor"
    /\ argShape = shape
    /\ argData = <<>>
    /\ argFlag = FALSE
    /\ res = "ok"
    /\ ret = 0

InValueRange(buf) == \A i \in 1..Len(buf) : buf[i] >= 0 - MaxValue /\ buf[i] <= MaxValue

\* operator+=, operator-=, operator*=, operator/= (const tensor &that).  A
\* division by zero is undefined: the loop stops there with a fault, or goes
\* on with some quotient (0 here).  Calls whose results leave
\* -MaxValue..MaxValue are left out.
CompoundOp ==
  /\ Idle
  /\ \E kind \in Kinds, thatShape \in ArithShapes, thatInit \in SourceInitializers :
       LET thatData == init_initializer(thatInit, element_size(thatShape), 0)
           n == Min(element_count, Len(thatData))
           result == Elementwise(kind, data, thatData, n)
       IN
       /\ shape_neq(thatShape, shpe) \/ InValueRange(result)
       /\ op' = CompoundName(kind)
       /\ argShape' = thatShape
       /\ argData' = thatData
       /\ argFlag' = FALSE
       /\ UNCHANGED <<shpe, cum_shpe, element_count, tensor_configuration, is_frozen>>
       /\ IF shape_neq(thatShape, shpe)
          THEN /\ res' = "operation_undefined"
               /\ ret' = 0
               /\ defined' = TRUE
               /\ UNCHANGED data
          ELSE IF DividesByZero(kind, thatData)
          THEN /\ res' = "ub"
               /\ ret' = "indeterminate"
               /\ defined' = FALSE
               /\ data' \in {ElementwiseUntilZero(kind, data, thatData, n), result}
          ELSE /\ res' = "ok"
               /\ data' = result
               /\ ret' = [shpe |-> shpe, data |-> result]
               /\ defined' = TRUE

\* ------------------------------------------------------------- axis_wise
\* std::reverse over the whole vector.
Reverse(v) == [i \in 1..Len(v) |-> v[Len(v) + 1 - i]]

\* The running products of the reversed axis sizes.
reverse_cumulative_shape_of_reversed(d) == cumulative_shape(Reverse(d))

reverse_cumulative_shape(d) == Reverse(cumulative_shape(d))

\* axis_wise(axis) for an axis inside the shape d over the buffer buf: the
\* vector external it returns, or ub when the loops read behind the buffer.
\* Turn r of the outer loop appends one group for each e and then the
\* cleared internal once more.
axis_wise(d, buf, axis) ==
  LET repeat == reverse_cumulative_shape(d)[axis + 1] \div d[axis + 1]
      epoch == cumulative_shape(d)[axis + 1] \div d[axis + 1]
      current == d[axis + 1]
      last_repeat == IF axis = 0 THEN 0
                     ELSE reverse_cumulative_shape(d)[axis] \div d[axis]
      at(r, e, c) == e * last_repeat + c * repeat + r
      group(r, e) == [c \in 1..current |-> buf[at(r, e, c - 1) + 1]]
  IN IF \E r \in 0..(repeat - 1), e \in 0..(epoch - 1), c \in 0..(current - 1) :
          at(r, e, c) >= Len(buf)
     THEN [ub |-> TRUE, external |-> <<>>]
     ELSE [ub |-> FALSE,
           external |-> [k \in 1..(repeat * (epoch + 1)) |->
                           IF (k - 1) % (epoch + 1) = epoch THEN <<>>
                           ELSE group((k - 1) \div (epoch + 1), (k - 1) % (epoch + 1))]]

\* axis_wise(uint axis).  The axis is not checked: outside the shape the
\* vectors of the shape are read behind their end (a negative int argument
\* arrives as a large uint).  argFlag tells whether the buffer was read.
AxisWise ==
  /\ Idle
  /\ \E axis \in AxisInputs :
       /\ op' = "axis_wise"
       /\ argShape' = <<axis>>
       /\ argData' = <<>>
       /\ UNCHANGED tensor
       /\ IF axis < 0 \/ axis >= dimension(shpe)
          THEN /\ res' = "ub"
               /\ ret' = <<>>
               /\ argFlag' \in BOOLEAN
               /\ defined' = FALSE
          ELSE LET a == axis_wise(shpe, data, axis) IN
               /\ argFlag' = TRUE
               /\ IF a.ub
                  THEN /\ res' = "ub"
                       /\ ret' = <<>>
                       /\ defined' = FALSE
                  ELSE /\ res' = "ok"
                       /\ ret' = a.external
                       /\ defined' = TRUE

Preds == {"zero", "nonzero"}
Holds(pred, x) == IF pred = "zero" THEN x = 0 ELSE x # 0

\* The shape without its axis-th entry.
WithoutAxis(d, axis) == [t \in 1..(Len(d) - 1) |-> IF t <= axis THEN d[t] ELSE d[t + 1]]

\* all(op, axis) and any(op, axis) after their range test; the inner loop is
\* read as the loop over the elements of group k.  The result goes through
\* the constructor tensor(std::vector, Shape), which compares the sizes.
AxisReduce(name, pred) ==
  \E axis \in AxisInputs :
    LET ns == WithoutAxis(shpe, axis)
        a == axis_wise(shpe, data, axis)
        verdict(k) == IF name = "all" THEN \A t \in 1..Len(k) : Holds(pred, k[t])
                      ELSE \E t \in 1..Len(k) : Holds(pred, k[t])
        r == [g \in 1..Len(a.external) |-> verdict(a.external[g])]
    IN
    /\ op' = name
    /\ argShape' = <<axis>>
    /\ argData' = <<pred>>
    /\ UNCHANGED tensor
    /\ IF axis < 0 \/ dimension(shpe) <= axis
       THEN /\ res' = "axis_error"
            /\ ret' = 0
            /\ argFlag' = FALSE
            /\ defined' = TRUE
       ELSE /\ argFlag' = TRUE
            /\ IF a.ub
               THEN /\ res' = "ub"
                    /\ ret' = 0
                    /\ defined' = FALSE
               ELSE IF element_size(ns) # Len(r)
               THEN /\ res' = "bad_init_shape"
                    /\ ret' = 0
                    /\ defined' = TRUE
               ELSE /\ res' = "ok"
                    /\ ret' = [shpe |-> ns, data |-> r]
                    /\ defined' = TRUE

\* all(op, axis)
AllAxis == Idle /\ \E pred \in Preds : AxisReduce("all", pred)

\* any(op, axis)
AnyAxis == Idle /\ \E pred \in Preds : AxisReduce("any", pred)

\* ------------------------------------------------------------- gather
\* The tensor<uint> arguments: built by tensor(std::vector, Shape) from a
\* vector of up to MaxIndexLen values and a shape of that many elements.
IndexShapes == {d \in ValidShapes : element_size(d) <= MaxIndexLen}
IndexValues == 0..MaxDim

\* The loop of operator[](const tensor<uint> &indexList) from position k
\* (0-based) on, acc being res so far: it compares the position k with the
\* element count and appends the index value itself.
RECURSIVE GatherScan(_, _, _, _)
GatherScan(indexData, k, acc, count) ==
  IF k >= Len(indexData) THEN [res |-> "ok", ret |-> acc]
  ELSE IF k > count THEN [res |-> "operation_undefined", ret |-> <<>>]
  ELSE GatherScan(indexData, k + 1, Append(acc, indexData[k + 1]), count)

\* operator[](const tensor<uint> &indexList)
Gather ==
  /\ Idle
  /\ \E indexShape \in IndexShapes :
       \E indexData \in [1..element_size(indexShape) -> IndexValues] :
         LET g == IF dimension(indexShape) # 1
                  THEN [res |-> "operation_undefined", ret |-> <<>>]
                  ELSE GatherScan(indexData, 0, <<>>, element_size(shpe))
         IN
         /\ op' = "gather"
         /\ argShape' = indexShape
         /\ argData' = indexData
         /\ argFlag' = FALSE
         /\ UNCHANGED tensor
         /\ res' = g.res
         /\ ret' = g.ret
         /\ defined' = TRUE

\* ------------------------------------------------------------- Shape alone
\* A Shape built by Shape(std::initializer_list<uint>) with no tensor around
\* it: the tensor's fields are empty.
ShapeInputs == SeqsUpTo(0..MaxShapeDim, MaxShapeRank)

ShapeAlone(d) ==
  /\ shpe = d
  /\ cum_shpe = <<>>
  /\ element_count = 0
  /\ data = <<>>
  /\ tensor_configuration = [is_broad_castable |-> TRUE, is_freezeable |-> TRUE]
  /\ is_frozen = FALSE
  /\ defined = TRUE
  /\ op = "Shape"
  /\ argShape = d
  /\ argData = <<>>
  /\ argFlag = FALSE
  /\ res = "ok"
  /\ ret = 0

InitShape == \E d \in ShapeInputs : ShapeAlone(d)

\* A call of a const member function of the Shape that returns value.
ShapeCall(name, value) ==
  /\ Idle
  /\ op' = name
  /\ argShape' = <<>>
  /\ argData' = <<>>
  /\ argFlag' = FALSE
  /\ res' = "ok"
  /\ ret' = value
  /\ defined' = TRUE
  /\ UNCHANGED tensor

\* shpe.element_size()
ElementSize == ShapeCall("element_size", element_size(shpe))

\* shpe.dimension()
Dimension == ShapeCall("dimension", dimension(shpe))

\* shpe.cumulative_shape()
CumulativeShape == ShapeCall("cumulative_shape", cumulative_shape(shpe))

\* shpe.reverse_cumulative_shape()
ReverseCumulativeShape ==
  ShapeCall("reverse_cumulative_shape", reverse_cumulative_shape(shpe))

\* ------------------------------------------------------------- large shapes
\* Shapes whose products pass the word size: axis sizes near the ends of uint.
BigDims == {1, 2, 2 ^ (UintBits - 1), UintMod - 1}
BigShapes == SeqsUpTo(BigDims, MaxRank + 1)

InitOverflow == \E d \in BigShapes : ShapeAlone(d)

\* tensor(shpe, init_method) for the Shape at hand: update_shape takes the
\* element count from element_size(), init_initializer pushes that many
\* elements.  Buffers of more than MaxBuffer elements are left out.
ConstructLarge ==
  /\ Idle
  /\ \E init_method \in SourceInitializers :
       LET u == update_shape(shpe) IN
       /\ u.element_count <= MaxBuffer
       /\ op' = "tensor"
       /\ argShape' = shpe
       /\ argData' = <<>>
       /\ argFlag' = FALSE
       /\ ret' = 0
       /\ defined' = TRUE
       /\ UNCHANGED <<tensor_configuration, is_frozen>>
       /\ IF is_initial_valid_shape(shpe)
          THEN /\ SetShape(u)
               /\ data' = init_initializer(init_method, u.element_count, 0)
               /\ res' = "ok"
          ELSE /\ res' = "bad_init_shape"
               /\ UNCHANGED <<shpe, cum_shpe, element_count, data>>

\* ------------------------------------------------------------- construction
\* The int vectors a Shape is built from by Shape(std::vector<int>).
IntVectors == SeqsUpTo(-1..MaxDim, MaxRank)

\* No tensor yet.
InitConstruct ==
  /\ shpe = <<>>
  /\ cum_shpe = <<>>
  /\ element_count = 0
  /\ data = <<>>
  /\ tensor_configuration = [is_broad_castable |-> TRUE, is_freezeable |-> TRUE]
  /\ is_frozen = FALSE
  /\ defined = TRUE
  /\ op = "idle"
  /\ argShape = <<>>
  /\ argData = <<>>
  /\ argFlag = FALSE
  /\ res = "ok"
  /\ ret = 0

NoTensor == element_count = 0 /\ data = <<>>

\* Shape::is_initial_valid_shape(Shape(s)) for an int vector s, asked before
\* a tensor is built.
IsInitialValidShape ==
  /\ Idle
  /\ NoTensor
  /\ \E s \in IntVectors :
       /\ op' = "is_initial_valid_shape"
       /\ argShape' = s
       /\ argData' = <<>>
       /\ argFlag' = FALSE
       /\ res' = "ok"
       /\ ret' = is_initial_valid_shape(ShapeFromInts(s))
       /\ defined' = TRUE
       /\ UNCHANGED tensor

\* tensor(Shape(s), init_method, tensor_config) for an int vector s; no
\* object is built when the constructor throws.
Construct ==
  /\ Idle
  /\ NoTensor
  /\ \E s \in IntVectors, init_method \in Initializers,
        tensor_config \in Configs, seed \in Seeds :
       LET shape == ShapeFromInts(s)
           u == update_shape(shape)
       IN
       /\ op' = "tensor"
       /\ argShape' = s
       /\ argData' = <<>>
       /\ argFlag' = FALSE
       /\ ret' = 0
       /\ defined' = TRUE
       /\ IF is_initial_valid_shape(shape)
          THEN /\ SetShape(u)
               /\ data' = init_initializer(init_method, u.element_count, seed)
               /\ tensor_configuration' = tensor_config
               /\ is_frozen' = FALSE
               /\ res' = "ok"
          ELSE /\ res' = "bad_init_shape"
               /\ UNCHANGED tensor

\* ------------------------------------------------------------- Slicer
END == -1
BEGIN == -2

SliceVectors == SeqsUpTo(0..MaxDim, MaxRank)
Steps == 0..MaxValue
Fulls == {BEGIN, END, 0}

\* validate() with original_shape referring to the live Shape d.
validate(start, stop, step, d) ==
  IF Len(start) # Len(stop) \/ Len(start) # dimension(d) THEN "bad_slice"
  ELSE IF step = 0 THEN "bad_slice"
  ELSE IF \E t \in 1..Len(start) : start[t] > stop[t] \/ stop[t] > d[t]
  THEN "bad_slice"
  ELSE "ok"

\* The outcome of a constructor that ends in validate(): the Slicer built, or
\* the exception.  The Shape argument sp is t.shape() of the tensor at hand.
SlicerCall(name, args, thrown, start, stop, step) ==
  LET v == IF thrown THEN "bad_slice" ELSE validate(start, stop, step, shpe) IN
  /\ op' = name
  /\ argShape' = shpe
  /\ argData' = args
  /\ argFlag' = FALSE
  /\ res' = v
  /\ ret' = IF v = "ok" THEN [start |-> start, stop |-> stop, step |-> step] ELSE 0
  /\ defined' = TRUE
  /\ UNCHANGED tensor

\* Slicer(A, B, sp, x)
SlicerNew ==
  /\ Idle
  /\ \E A \in SliceVectors, B \in SliceVectors, x \in Steps :
       SlicerCall("Slicer", [A |-> A, B |-> B, x |-> x, full |-> 0], FALSE, A, B, x)

\* Slicer(full, B, sp, x): start = stop, every entry of start set to 0.
SlicerBegin ==
  /\ Idle
  /\ \E full \in Fulls, B \in SliceVectors, x \in Steps :
       SlicerCall("SlicerBegin", [A |-> <<>>, B |-> B, x |-> x, full |-> full],
                  full # BEGIN, [t \in 1..Len(B) |-> 0], B, x)

\* Slicer(A, full, sp, x): stop = sp.d.
SlicerEnd ==
  /\ Idle
  /\ \E A \in SliceVectors, full \in Fulls, x \in Steps :
       SlicerCall("SlicerEnd", [A |-> A, B |-> <<>>, x |-> x, full |-> full],
                  full # END, A, shpe, x)

\* validate() called on the Slicer a constructor has returned.
\* original_shape is a reference bound to the constructor's by-value parameter
\* sp, which is gone by then: what validate() reads through it is
\* indeterminate, and so is its outcome.
SlicerValidate ==
  /\ defined
  /\ op \in {"Slicer", "SlicerBegin", "SlicerEnd"}
  /\ res = "ok"
  /\ op' = "validate"
  /\ res' \in {"ok", "bad_slice", "ub"}
  /\ defined' = FALSE
  /\ UNCHANGED <<tensor, argShape, argData, argFlag, ret>>

\* ---------------------------------------------------------------- sum
\* sum(int axis = -1) is declared in the class and defined nowhere; it is
\* taken as described: the fold of the whole buffer for the sentinel -1, and
\* for an axis k the groups of axis_wise(k) folded one by one into a tensor of
\* the shape without axis k, built like the results of all() and any().
RECURSIVE accumulate(_)
accumulate(v) == IF Len(v) = 0 THEN 0 ELSE v[1] + accumulate(Tail(v))

SumCall(axis, outcome, value, read, ok) ==
  /\ op' = "sum"
  /\ argShape' = <<axis>>
  /\ argData' = <<>>
  /\ argFlag' = read
  /\ res' = outcome
  /\ ret' = value
  /\ defined' = ok
  /\ UNCHANGED tensor

\* sum(): the whole tensor.
SumAll ==
  /\ Idle
  /\ SumCall(-1, "ok", accumulate(data), TRUE, TRUE)

\* sum(k): along one axis.
SumAxis ==
  /\ Idle
  /\ \E axis \in 0..MaxRank :
       LET ns == WithoutAxis(shpe, axis)
           a == axis_wise(shpe, data, axis)
           r == [g \in 1..Len(a.external) |-> accumulate(a.external[g])]
       IN IF dimension(shpe) <= axis
          THEN SumCall(axis, "axis_error", 0, FALSE, TRUE)
          ELSE IF a.ub
          THEN SumCall(axis, "ub", 0, TRUE, FALSE)
          ELSE IF element_size(ns) # Len(r)
          THEN SumCall(axis, "bad_init_shape", 0, TRUE, TRUE)
          ELSE SumCall(axis, "ok", [shpe |-> ns, data |-> r], TRUE, TRUE)

\* ------------------------------------------- compound operators, scalar
MaxAccum == 4

ScalarCompoundName(kind) ==
  CASE kind = "+" -> "+=k" [] kind = "-" -> "-=k" [] kind = "*" -> "*=k"

\* operator+=, operator-=, operator*= (const dtype &t).  The loop variable is
\* named t as well and hides the parameter: the right operand of data[t] op= t
\* is the position.  Calls whose results leave -MaxAccum..MaxAccum are left
\* out.
ScalarCompoundOp ==
  /\ Idle
  /\ \E kind \in Kinds \ {"/"}, k \in Scalars :
       LET result == [i \in 1..Len(data) |->
                        IF i <= element_count THEN Combine(kind, data[i], i - 1)
                        ELSE data[i]]
       IN
       /\ \A i \in 1..Len(result) : result[i] >= 0 - MaxAccum /\ result[i] <= MaxAccum
       /\ op' = ScalarCompoundName(kind)
       /\ argShape' = <<>>
       /\ argData' = <<k>>
       /\ argFlag' = FALSE
       /\ res' = "ok"
       /\ data' = result
       /\ ret' = [shpe |-> shpe, data |-> result]
       /\ defined' = TRUE
       /\ UNCHANGED <<shpe, cum_shpe, element_count, tensor_configuration, is_frozen>>

Next ==
  \/ Return
  \/ Reshape
  \/ Squeeze
  \/ SwapAxis
  \/ Freeze
  \/ Unfreeze
  \/ CopyTo

Spec == Init /\ [][Next]_vars

\* resize_shape is private; it is exercised on its own here.
NextResize ==
  \/ Return
  \/ ResizeShape

SpecResize == Init /\ [][NextResize]_vars

\* The two read accesses by multi-index.
NextIndex ==
  \/ Return
  \/ ToFlatIndex
  \/ IndexerGet

SpecIndex == Init /\ [][NextIndex]_vars

\* The operators that build a new tensor.
NextBinary ==
  \/ Return
  \/ BinaryOp
  \/ ScalarOp

SpecBinary == InitArith /\ [][NextBinary]_vars

\* The operators that change the tensor in place.
NextCompound ==
  \/ Return
  \/ CompoundOp

SpecCompound == InitCompound /\ [][NextCompound]_vars

\* All the elementwise operators together.
NextArith ==
  \/ Return
  \/ BinaryOp
  \/ ScalarOp
  \/ CompoundOp

SpecArith == InitArith /\ [][NextArith]_vars

\* The grouping along an axis and the two reductions built on it.
NextAxis ==
  \/ Return
  \/ AxisWise
  \/ AllAxis
  \/ AnyAxis

SpecAxis == Init /\ [][NextAxis]_vars

\* squeeze on tensors of up to MaxSqueezeRank axes and MaxSqueezeCount elements.
SqueezeShapes ==
  {d \in SeqsUpTo(1..MaxSqueezeDim, MaxSqueezeRank) : element_size(d) <= MaxSqueezeCount}

InitSqueeze ==
  \E shape \in SqueezeShapes, init_method \in Initializers, seed \in Seeds :
    LET u == update_shape(shape) IN
    /\ shpe = u.shpe
    /\ cum_shpe = u.cum_shpe
    /\ element_count = u.element_count
    /\ data = init_initializer(init_method, u.element_count, seed)
    /\ tensor_configuration = [is_broad_castable |-> TRUE, is_freezeable |-> TRUE]
    /\ is_frozen = FALSE
    /\ defined = TRUE
    /\ op = "tensor"
    /\ argShape = shape
    /\ argData = <<>>
    /\ argFlag = FALSE
    /\ res = "ok"
    /\ ret = 0

NextSqueeze ==
  \/ Return
  \/ Squeeze

SpecSqueeze == InitSqueeze /\ [][NextSqueeze]_vars

\* The selection of elements by an index tensor.
NextGather ==
  \/ Return
  \/ Gather

SpecGather == Init /\ [][NextGather]_vars

\* The member functions of Shape on shapes of up to MaxShapeRank axes.
NextShape ==
  \/ Return
  \/ ElementSize
  \/ Dimension
  \/ CumulativeShape
  \/ ReverseCumulativeShape

SpecShape == InitShape /\ [][NextShape]_vars


\* Shape and tensor construction on shapes whose products pass the word size.
NextOverflow ==
  \/ Return
  \/ ElementSize
  \/ CumulativeShape
  \/ ConstructLarge

SpecOverflow == InitOverflow /\ [][NextOverflow]_vars


\* Construction from int vectors, zero and negative entries included.
NextConstruct ==
  \/ Return
  \/ IsInitialValidShape
  \/ Construct

SpecConstruct == InitConstruct /\ [][NextConstruct]_vars


\* The Slicer: its three constructors and validate().
NextSlicer ==
  \/ Return
  \/ SlicerNew
  \/ SlicerBegin
  \/ SlicerEnd
  \/ SlicerValidate

SpecSlicer == Init /\ [][NextSlicer]_vars

\* The constructors alone.
NextSlicerNew ==
  \/ Return
  \/ SlicerNew
  \/ SlicerBegin
  \/ SlicerEnd

SpecSlicerNew == Init /\ [][NextSlicerNew]_vars


\* The reduction sum, over the whole tensor and along an axis.
NextSum ==
  \/ Return
  \/ SumAll
  \/ SumAxis

SpecSum == Init /\ [][NextSum]_vars


\* The compound operators with a scalar right operand.
NextScalarCompound ==
  \/ Return
  \/ ScalarCompoundOp

SpecScalarCompound == InitCompound /\ [][NextScalarCompound]_vars


\* ------------------------------------------------------------- properties
RECURSIVE Product(_)
Product(d) == IF Len(d) = 0 THEN 1 ELSE d[1] * Product(Tail(d))

RECURSIVE Sum(_)
Sum(d) == IF Len(d) = 0 THEN 0 ELSE d[1] + Sum(Tail(d))

\* The running products of the axis sizes, axis 0 first.
PrefixProducts(d) == [i \in 1..Len(d) |-> Product(SubSeq(d, 1, i))]

\* The row-major offset of multi-index idx in a tensor of shape d.
RowMajorOffset(idx, d) ==
  Sum([i \in 1..Len(d) |-> idx[i] * Product(SubSeq(d, i + 1, Len(d)))])

InRange(idx, d) ==
  /\ Len(idx) = Len(d)
  /\ \A i \in 1..Len(d) : idx[i] >= 0 /\ idx[i] < d[i]

Negatives(s) == {i \in 1..Len(s) : s[i] < 0}
HasZero(s) == \E i \in 1..Len(s) : s[i] = 0
ProductOfOthers(s) == Product(SelectSeq(s, LAMBDA e : e > 0))

\* C1: in every state reached by construct, reshape, resize, squeeze,
\* swap_axis, freeze, unfreeze and copy_to calls, failed or not, the buffer
\* holds element_count elements and element_count is the product of the axis
\* sizes of the shape.
C1_BufferMatchesShape ==
  /\ Len(data) = element_count
  /\ element_count = Product(shpe)

\* C2: for a multi-index with one entry per axis, each below its axis size,
\* to_flat_index returns the row-major offset, the sum of
\* index[i] * (elementCount / cumulativeShape[i]); 5 for [1,2] in shape (2,3).
C2_FlatIndexRowMajor ==
  (op = "to_flat_index" /\ InRange(argShape, shpe)) =>
    (res = "ok" /\ ret = RowMajorOffset(argShape, shpe))

\* C3: to_flat_index fails with bad_indexer exactly when the number of entries
\* of the multi-index differs from dimension(): it fails whenever they differ,
\* and an index of dimension() entries that are all in range is accepted.
C3_LengthCheckedAgainstDimension ==
  op = "to_flat_index" =>
    /\ Len(argShape) # dimension(shpe) => res = "bad_indexer"
    /\ InRange(argShape, shpe) => res # "bad_indexer"

\* C4: to_flat_index and operator[](Indexer) fail with bad_indexer whenever
\* some entry is >= the size of its axis, the entry equal to the size
\* included, and then no element of the buffer is read.
C4_EntryAtAxisSizeRejected ==
  (/\ op \in {"to_flat_index", "operator[]"}
   /\ \E i \in 1..Min(Len(argShape), Len(shpe)) : argShape[i] >= shpe[i]) =>
    (res = "bad_indexer" /\ ~argFlag)

\* C5: reshape to a target with exactly one negative entry and otherwise
\* positive entries whose product divides the element count succeeds and
\* installs the target with the negative entry replaced by
\* elementCount / productOfOthers.
C5_InferredAxisResolved ==
  (/\ op = "reshape"
   /\ Cardinality(Negatives(argShape)) = 1
   /\ ~HasZero(argShape)
   /\ Len(data) % ProductOfOthers(argShape) = 0) =>
    /\ res = "ok"
    /\ shpe = [i \in 1..Len(argShape) |->
                 IF argShape[i] < 0 THEN Len(data) \div ProductOfOthers(argShape)
                 ELSE argShape[i]]

\* C6: reshape throws bad_reshape when the target has a zero entry, more than
\* one negative entry, or no negative entry and a product other than the
\* element count; and a reshape that throws bad_reshape leaves shape, stride
\* cache, element_count and buffer as they were.
C6_BadReshapeLeavesTensor ==
  [][/\ (/\ op' = "reshape"
         /\ \/ HasZero(argShape')
            \/ Cardinality(Negatives(argShape')) > 1
            \/ (Negatives(argShape') = {} /\ Product(argShape') # element_count))
        => res' = "bad_reshape"
     /\ (op' = "reshape" /\ res' = "bad_reshape")
        => UNCHANGED <<shpe, cum_shpe, element_count, data>>]_vars

\* A reshape of a 2-axis tensor to positive sizes of another product was refused.
C6_Witness ==
  /\ op = "reshape"
  /\ res = "bad_reshape"
  /\ Len(shpe) = 2
  /\ Len(argShape) = 2
  /\ Negatives(argShape) = {}
  /\ ~HasZero(argShape)
  /\ Product(argShape) # element_count

\* C7: a reshape that succeeds leaves the buffer as it was, element by
\* element, leaves element_count as it was, and sets cum_shpe to the running
\* products of the new shape.
C7_ReshapeKeepsBuffer ==
  [][(op' = "reshape" /\ res' = "ok") =>
       /\ data' = data
       /\ element_count' = element_count
       /\ cum_shpe' = PrefixProducts(shpe')]_vars

\* A 6-element tensor holding 0..5 was reshaped to (3,2).
C7_Witness ==
  /\ op = "reshape"
  /\ res = "ok"
  /\ shpe = <<3, 2>>
  /\ cum_shpe = <<3, 6>>
  /\ data = <<0, 1, 2, 3, 4, 5>>

\* C8: while the tensor is frozen every reshape and every resize fails and
\* leaves shape and buffer as they were.
C8_FrozenRejectsShapeChange ==
  [][(is_frozen /\ op' \in {"reshape", "resize_shape"}) =>
       /\ res' \notin {"ok", "ub"}
       /\ UNCHANGED <<shpe, data>>]_vars

\* C9: freeze() fails and leaves the flag false when the configuration has
\* is_freezeable false, sets the flag when it is true, unfreeze() clears the
\* flag; so a frozen tensor always has is_freezeable true.
C9_FrozenOnlyIfFreezeable ==
  /\ is_frozen => tensor_configuration.is_freezeable
  /\ (op = "freeze" /\ ~tensor_configuration.is_freezeable) =>
       (res = "operation_undefined" /\ ~is_frozen)
  /\ (op = "freeze" /\ tensor_configuration.is_freezeable) =>
       (res = "ok" /\ is_frozen)
  /\ op = "unfreeze" => (res = "ok" /\ ~is_frozen)

\* C10: resize_shape to a shape of another element count leaves a buffer of
\* exactly that many elements, the first min(old, new) of them the previous
\* elements in order and, when it grew, the added ones zero.
C10_ResizeKeepsPrefix ==
  [][(op' = "resize_shape" /\ Product(argShape') # Len(data)) =>
       /\ Len(data') = Product(argShape')
       /\ \A k \in 1..Min(Len(data), Len(data')) : data'[k] = data[k]
       /\ \A k \in (Len(data) + 1)..Len(data') : data'[k] = 0]_vars

\* The integer quotient x / y for y # 0: the q of the sign of x * y with
\* |q| * |y| <= |x| < (|q| + 1) * |y|.
Quotient(x, y) ==
  CHOOSE q \in (0 - Abs(x))..Abs(x) :
    /\ Abs(q) * Abs(y) <= Abs(x)
    /\ Abs(x) < (Abs(q) + 1) * Abs(y)
    /\ (q > 0 => (x > 0) = (y > 0))
    /\ (q < 0 => (x > 0) # (y > 0))

\* this[i] op that[i] for the operator recorded under name.
OpResult(name, x, y) ==
  CASE name \in {"+", "+=", "+k"} -> x + y
    [] name \in {"-", "-=", "-k"} -> x - y
    [] name \in {"*", "*=", "*k"} -> x * y
    [] name \in {"/", "/=", "/k"} -> Quotient(x, y)

HasZeroDivisor(name, b) ==
  name \in {"/", "/=", "/k"} /\ \E i \in 1..Len(b) : b[i] = 0

\* C11: for two tensors of the same shape each of +, -, *, / returns a new
\* tensor of that shape whose element i is this[i] op that[i], and leaves the
\* operands as they were.
C11_BinaryOpElementwise ==
  [][(op' \in Kinds /\ argShape' = shpe /\ ~HasZeroDivisor(op', argData')) =>
       /\ res' = "ok"
       /\ ret' = [shpe |-> shpe,
                  data |-> [i \in 1..Len(data) |-> OpResult(op', data[i], argData'[i])]]
       /\ UNCHANGED tensor]_vars

\* C12: a tensor-with-tensor binary operation on operands of different shapes
\* fails with the shape-mismatch error whenever one of the two configs has
\* is_broad_castable false; so anything else happens only when both allow it.
C12_MismatchFailsUnlessBothBroadcastable ==
  (/\ op \in Kinds
   /\ argShape # shpe
   /\ (~tensor_configuration.is_broad_castable \/ ~argFlag)) =>
    res = "operation_undefined"

\* this (1,2) + that (2,1), that not broadcastable, was refused.
C12_Witness ==
  /\ op = "+"
  /\ shpe = <<1, 2>>
  /\ argShape = <<2, 1>>
  /\ tensor_configuration.is_broad_castable
  /\ ~argFlag
  /\ res = "operation_undefined"

\* The two shapes right-aligned: the shorter one padded with 1s on the left.
PadLeft(d, n) == [i \in 1..n |-> IF i <= n - Len(d) THEN 1 ELSE d[i - (n - Len(d))]]
Max(a, b) == IF a < b THEN b ELSE a
Compatible(a, b) ==
  LET n == Max(Len(a), Len(b)) IN
  \A i \in 1..n : \/ PadLeft(a, n)[i] = PadLeft(b, n)[i]
                  \/ PadLeft(a, n)[i] = 1
                  \/ PadLeft(b, n)[i] = 1
Unified(a, b) ==
  LET n == Max(Len(a), Len(b)) IN
  [i \in 1..n |-> IF PadLeft(a, n)[i] = 1 THEN PadLeft(b, n)[i] ELSE PadLeft(a, n)[i]]

\* C13: a binary operation on operands of different shapes whose configs both
\* allow broadcasting yields a tensor of the unified shape (the right-aligned
\* shapes, each pair equal or holding a 1) and fails with broadcast_error when
\* some pair is incompatible.
C13_BroadcastUnifiedShape ==
  (/\ op \in Kinds
   /\ argShape # shpe
   /\ tensor_configuration.is_broad_castable
   /\ argFlag) =>
    IF Compatible(shpe, argShape)
    THEN res = "ok" /\ ret.shpe = Unified(shpe, argShape)
    ELSE res = "broadcast_error"

\* C14: a division (tensor / tensor of the same shape, tensor / scalar, /=)
\* with a zero among the divisors fails with an arithmetic error and leaves
\* the left operand as it was.
C14_DivisionByZeroFails ==
  [][(/\ op' \in {"/", "/=", "/k"}
      /\ op' \in {"/", "/="} => argShape' = shpe
      /\ HasZeroDivisor(op', argData')) =>
       /\ res' = "arithmetic_error"
       /\ UNCHANGED tensor]_vars

\* C15: +=, -=, *=, /= with an operand of another shape fail with the
\* shape-mismatch error and leave shape and buffer as they were; with an
\* operand of the same shape they set this[i] to this[i] op that[i] for every
\* i (where that value exists: a zero divisor is C14's case), keep the shape
\* and return the left tensor itself.
C15_CompoundOpInPlace ==
  [][op' \in {"+=", "-=", "*=", "/="} =>
       /\ argShape' # shpe =>
            /\ res' = "operation_undefined"
            /\ UNCHANGED <<shpe, cum_shpe, element_count, data>>
       /\ (argShape' = shpe /\ ~HasZeroDivisor(op', argData')) =>
            /\ res' = "ok"
            /\ Len(data') = Len(data)
            /\ \A i \in 1..Len(data) : data'[i] = OpResult(op', data[i], argData'[i])
            /\ UNCHANGED <<shpe, cum_shpe, element_count>>
            /\ ret' = [shpe |-> shpe', data |-> data']]_vars

\* [1, 0] -= [0, 1] on a tensor of shape (2) left [1, -1].
C15_Witness ==
  /\ op = "-="
  /\ res = "ok"
  /\ shpe = <<2>>
  /\ argData = <<0, 1>>
  /\ data = <<1, 0 - 1>>

\* The multi-indices of a tensor of shape d.
MultiIndices(d) == {idx \in [1..Len(d) -> 0..(Product(d) - 1)] : InRange(idx, d)}

\* The values met along axis (0-based) from the multi-index base on.
AxisGroup(buf, d, base, axis) ==
  [j \in 1..d[axis + 1] |-> buf[RowMajorOffset([base EXCEPT ![axis + 1] = j - 1], d) + 1]]

\* C16: for an axis below dimension(), axis_wise returns exactly
\* elementCount / shape[axis] groups of shape[axis] elements each, the j-th
\* element of a group being the buffer value at the multi-index with axis
\* coordinate j and the group's remaining coordinates, one group for every
\* combination of the remaining coordinates.
C16_AxisWisePartition ==
  (/\ op = "axis_wise"
   /\ argShape[1] >= 0
   /\ argShape[1] < Len(shpe)) =>
    /\ res = "ok"
    /\ Len(ret) = element_count \div shpe[argShape[1] + 1]
    /\ \A k \in 1..Len(ret) : Len(ret[k]) = shpe[argShape[1] + 1]
    /\ \A base \in MultiIndices(shpe) :
         \E k \in 1..Len(ret) : ret[k] = AxisGroup(data, shpe, base, argShape[1])

\* C17: axis_wise(axis), all(pred, axis) and any(pred, axis) fail with
\* axis_error, without reading the buffer, whenever axis >= dimension() or
\* axis is negative, and do not fail with axis_error for an axis in range.
C17_AxisOutOfRangeFails ==
  op \in {"axis_wise", "all", "any"} =>
    /\ (argShape[1] < 0 \/ argShape[1] >= Len(shpe)) => (res = "axis_error" /\ ~argFlag)
    /\ (argShape[1] >= 0 /\ argShape[1] < Len(shpe)) => res # "axis_error"

\* The entries of d other than 1, in their order.
RECURSIVE WithoutOnes(_)
WithoutOnes(d) ==
  IF Len(d) = 0 THEN <<>>
  ELSE IF d[1] = 1 THEN WithoutOnes(Tail(d))
  ELSE <<d[1]>> \o WithoutOnes(Tail(d))

\* C18: squeeze() replaces the shape by its entries other than 1 in their
\* order ((1,3,1,5) becomes (3,5), a shape of 1s only becomes the empty
\* shape) and leaves element_count and the buffer as they were.
C18_SqueezeDropsOnes ==
  [][op' = "squeeze" =>
       /\ res' = "ok"
       /\ shpe' = WithoutOnes(shpe)
       /\ (shpe = <<1, 3, 1, 5>> => shpe' = <<3, 5>>)
       /\ ((\A i \in 1..Len(shpe) : shpe[i] = 1) => shpe' = <<>>)
       /\ element_count' = element_count
       /\ data' = data]_vars

\* A squeezed tensor of shape (3,5) whose stride cache and 15 elements show
\* the shape it was given.
C18_Witness ==
  /\ op = "squeeze"
  /\ res = "ok"
  /\ shpe = <<3, 5>>
  /\ cum_shpe = <<3, 15>>
  /\ element_count = 15
  /\ data = [k \in 1..15 |-> k - 1]

\* C19: operator[] with a 1-dimensional index tensor returns data[index[k]]
\* for every k, in the order of the index; it fails with an index error when
\* some index[k] is not a position of the tensor (index[k] >= elementCount),
\* and with operation_undefined when the index tensor is not 1-dimensional.
C19_GatherSelectsElements ==
  op = "gather" =>
    IF Len(argShape) # 1 THEN res = "operation_undefined"
    ELSE IF \E k \in 1..Len(argData) : argData[k] >= element_count
    THEN res \notin {"ok", "ub"}
    ELSE /\ res = "ok"
         /\ ret = [k \in 1..Len(argData) |-> data[argData[k] + 1]]

\* C20: source.copy_to(target, allowResize) fails with the size-mismatch
\* error and leaves target as it was when the sizes differ and allowResize is
\* false; otherwise, target being smaller, equal or larger, target ends with
\* the shape of the source and a buffer equal to the source's, element for
\* element.
C20_CopyToMakesTargetEqual ==
  [][op' = "copy_to" =>
       IF ~argFlag' /\ element_count # Len(argData')
       THEN /\ res' = "operation_undefined"
            /\ UNCHANGED <<shpe, cum_shpe, element_count, data>>
       ELSE /\ res' = "ok"
            /\ shpe' = argShape'
            /\ element_count' = Len(argData')
            /\ data' = argData']_vars

\* C21: element_size() returns the product of all axis sizes, 1 for the empty
\* shape, 24 for (3,2,4) and 90 for (5,3,6); dimension() returns the number
\* of axes, 0 for the empty shape.
C21_ElementSizeIsProduct ==
  /\ op = "element_size" =>
       /\ ret = Product(shpe)
       /\ (shpe = <<>> => ret = 1)
       /\ (shpe = <<3, 2, 4>> => ret = 24)
       /\ (shpe = <<5, 3, 6>> => ret = 90)
  /\ op = "dimension" =>
       /\ ret = Cardinality(DOMAIN shpe)
       /\ (shpe = <<>> => ret = 0)

\* element_size() of Shape({5,3,6}) returned 90.
C21_Witness ==
  /\ op = "element_size"
  /\ shpe = <<5, 3, 6>>
  /\ ret = 90

\* C23: cumulative_shape() has one entry per axis, cum[0] = d[0] and
\* cum[i] = cum[i-1] * d[i], so that its last entry is element_size(); it is
\* [4,4,28,28] for (4,1,7,1).
C23_CumulativeShapeRunningProduct ==
  op = "cumulative_shape" =>
    /\ Len(ret) = Len(shpe)
    /\ \A i \in 1..Len(shpe) :
         ret[i] = IF i = 1 THEN shpe[1] ELSE ret[i - 1] * shpe[i]
    /\ (Len(shpe) > 0 => ret[Len(shpe)] = Product(shpe))
    /\ (shpe = <<4, 1, 7, 1>> => ret = <<4, 4, 28, 28>>)

\* cumulative_shape() of Shape({4,1,7,1}) returned [4,4,28,28].
C23_Witness ==
  /\ op = "cumulative_shape"
  /\ shpe = <<4, 1, 7, 1>>
  /\ ret = <<4, 4, 28, 28>>

\* C24 as claimed: reverse_cumulative_shape() is cumulative_shape() of the
\* axis sizes in reversed order, entry i being the product of the last i+1
\* axis sizes ([4,12,24] for (2,3,4)).
C24_ReverseCumulativeOfReversed ==
  op = "reverse_cumulative_shape" =>
    /\ Len(ret) = Len(shpe)
    /\ \A i \in 1..Len(shpe) :
         ret[i] = Product(SubSeq(shpe, Len(shpe) + 1 - i, Len(shpe)))

\* C24 as amended: reverse_cumulative_shape() is cumulative_shape() with its
\* entries in reversed order, entry i (0-based) being the product of the
\* first n-i axis sizes ([24,6,2] for (2,3,4)).
C24_ReversedCumulative ==
  op = "reverse_cumulative_shape" =>
    /\ Len(ret) = Len(shpe)
    /\ \A i \in 1..Len(shpe) :
         ret[i] = Product(SubSeq(shpe, 1, Len(shpe) + 1 - i))
    /\ (shpe = <<2, 3, 4>> => ret = <<24, 6, 2>>)

\* reverse_cumulative_shape() of Shape({2,3,4}) returned [24,6,2].
C24_Witness ==
  /\ op = "reverse_cumulative_shape"
  /\ shpe = <<2, 3, 4>>
  /\ ret = <<24, 6, 2>>

\* C22: when the product of the axis sizes does not fit size_t, element_size()
\* and the construction of a tensor fail with the invalid-shape error
\* instead of returning or using the wrapped-around count.
C22_OverflowRejected ==
  (op \in {"element_size", "tensor"} /\ Product(shpe) >= SizeMod) =>
    res = "bad_init_shape"

\* C25: is_initial_valid_shape is true exactly when every axis size is > 0 (a
\* Shape built from an int vector with a zero or negative entry is invalid);
\* the construction of a tensor fails with bad_init_shape exactly when it is
\* false, and otherwise leaves a buffer of element_size(shape) elements.
C25_InvalidShapeRejected ==
  /\ op = "is_initial_valid_shape" =>
       (ret <=> \A i \in 1..Len(argShape) : argShape[i] > 0)
  /\ op = "tensor" =>
       /\ res = "bad_init_shape" <=> \E i \in 1..Len(argShape) : argShape[i] <= 0
       /\ res = "ok" <=> \A i \in 1..Len(argShape) : argShape[i] > 0
       /\ res = "ok" => (shpe = argShape /\ Len(data) = Product(argShape))

\* tensor(Shape({2,-1})) was refused.
C25_Witness ==
  /\ op = "tensor"
  /\ argShape = <<2, 0 - 1>>
  /\ res = "bad_init_shape"

\* The start and stop a Slicer call is to validate: those given, all zeros
\* after BEGIN, the extents of the shape after END.
SliceStart == IF op = "SlicerBegin" THEN [t \in 1..Len(argData.B) |-> 0] ELSE argData.A
SliceStop == IF op = "SlicerEnd" THEN argShape ELSE argData.B
BadSlice(start, stop, step, d) ==
  \/ Len(start) # Len(stop)
  \/ Len(start) # Len(d)
  \/ step = 0
  \/ \E t \in 1..Min(Len(start), Min(Len(stop), Len(d))) :
       start[t] > stop[t] \/ stop[t] > d[t]

\* C26: the validation of a Slicer against its Shape fails with bad_slice
\* exactly when start and stop differ in length, or that length differs from
\* dimension(), or step is 0, or some start[axis] > stop[axis] or
\* stop[axis] > shape[axis] (start = stop and stop = shape[axis] pass); the
\* BEGIN and END constructors validate all zeros and the shape's extents.
C26_SlicerValidation ==
  (/\ op \in {"Slicer", "SlicerBegin", "SlicerEnd", "validate"}
   /\ op = "SlicerBegin" => argData.full = BEGIN
   /\ op = "SlicerEnd" => argData.full = END) =>
    IF op = "validate"
    THEN /\ res \in {"ok", "bad_slice"}
         /\ res = "bad_slice" <=> BadSlice(ret.start, ret.stop, ret.step, argShape)
    ELSE /\ res \in {"ok", "bad_slice"}
         /\ res = "bad_slice" <=> BadSlice(SliceStart, SliceStop, argData.x, argShape)
         /\ res = "ok" =>
              ret = [start |-> SliceStart, stop |-> SliceStop, step |-> argData.x]

\* C27: sum() over the whole tensor (axis sentinel -1) returns the sum of all
\* buffer elements as a scalar (15 for the (2,3) tensor [0,1,2,3,4,5]); sum
\* along an axis k below dimension() returns a tensor of the shape without
\* axis k that holds, for every combination of the remaining coordinates, the
\* sum of that group of axis k.
C27_SumReduces ==
  op = "sum" =>
    IF argShape[1] = -1
    THEN res = "ok" /\ ret = Sum(data)
    ELSE argShape[1] < Len(shpe) =>
           /\ res = "ok"
           /\ ret.shpe = WithoutAxis(shpe, argShape[1])
           /\ Len(ret.data) = Product(ret.shpe)
           /\ \A base \in MultiIndices(shpe) :
                \E g \in 1..Len(ret.data) :
                  ret.data[g] = Sum(AxisGroup(data, shpe, base, argShape[1]))

\* The whole-tensor half of C27 alone.
C27_WholeSum == (op = "sum" /\ argShape[1] = -1) => (res = "ok" /\ ret = Sum(data))

\* C28: t += k, t -= k and t *= k change every element data[i] to
\* data[i] + k, data[i] - k and data[i] * k for the scalar k given, whatever
\* the position i, and leave the shape and element_count unchanged (the
\* buffer of t += k is that of t + k).
C28_ScalarCompoundUsesScalar ==
  [][op' \in {"+=k", "-=k", "*=k"} =>
       /\ res' = "ok"
       /\ Len(data') = Len(data)
       /\ \A i \in 1..Len(data) :
            data'[i] = CASE op' = "+=k" -> data[i] + argData'[1]
                         [] op' = "-=k" -> data[i] - argData'[1]
                         [] op' = "*=k" -> data[i] * argData'[1]
       /\ UNCHANGED <<shpe, element_count>>]_vars

\* C29: for an axis below dimension(), axis_wise reads no buffer position
\* outside 0..element_count-1, and none of the groups it returns is empty.
C29_AxisWiseReadsInBounds ==
  (/\ op = "axis_wise"
   /\ argShape[1] >= 0
   /\ argShape[1] < Len(shpe)) =>
    /\ res # "ub"
    /\ \A k \in 1..Len(ret) : Len(ret[k]) > 0

\* C30: swap_axis(axis1, axis2) with an axis outside the shape (at or above
\* dimension(), or negative and so above it once converted to unsigned) fails
\* with operation_undefined and leaves the shape, the cumulative shape and the
\* buffer unchanged; with both axes inside it exchanges exactly the two axis
\* sizes and keeps element_count and the buffer, so that the same call again
\* restores the shape.
C30_SwapAxisChecked ==
  [][op' = "swap_axis" =>
       LET axis1 == argShape'[1]
           axis2 == argShape'[2]
           inside(a) == a >= 0 /\ a < Len(shpe)
       IN IF inside(axis1) /\ inside(axis2)
          THEN /\ res' = "ok"
               /\ Len(shpe') = Len(shpe)
               /\ shpe'[axis1 + 1] = shpe[axis2 + 1]
               /\ shpe'[axis2 + 1] = shpe[axis1 + 1]
               /\ \A i \in 1..Len(shpe) : i \notin {axis1 + 1, axis2 + 1} => shpe'[i] = shpe[i]
               /\ UNCHANGED <<element_count, data>>
          ELSE /\ res' = "operation_undefined"
               /\ UNCHANGED <<shpe, cum_shpe, data>>]_vars

\* The half of C30 about axes inside the shape.
C30_SwapInRange ==
  [][(/\ op' = "swap_axis"
      /\ argShape'[1] >= 0 /\ argShape'[1] < Len(shpe)
      /\ argShape'[2] >= 0 /\ argShape'[2] < Len(shpe)) =>
       /\ res' = "ok"
       /\ shpe' = [shpe EXCEPT ![argShape'[1] + 1] = shpe[argShape'[2] + 1],
                               ![argShape'[2] + 1] = shpe[argShape'[1] + 1]]
       /\ UNCHANGED <<element_count, data>>]_vars
====
